---- MODULE Spec2Model ----
(***************************************************************************)
(* Model of src/src/components/Poll.vue: the poll widget's script block.   *)
(* One action per handler body between two suspension points (await,       *)
(* timer, DOM or EventSource event); the JavaScript event loop runs each   *)
(* of them to completion.                                                  *)
(*                                                                         *)
(* The environment: the server answers or rejects each request in any      *)
(* order; the browser reports transport errors on an EventSource and then  *)
(* retries it (connecting) or gives it up (closed); the rendering library  *)
(* may throw whenever it is called; the page may be reloaded at any time.  *)
(* localStorage calls do not throw, the canvas of the template is in the   *)
(* document, and new EventSource with the constant URL does not throw.     *)
(* Requests in flight are not told apart: no continuation reads the id a   *)
(* request was sent with.                                                  *)
(***************************************************************************)
EXTENDS Integers, Sequences, FiniteSets, TLC

\* ---- bounds of the model ------------------------------------------------
MaxOptions == 2
MaxVotes == 1
MaxPosts == 2
MaxConns == 3
MaxTimers == 2
MaxCharts == 3

\* ---- data the server can send --------------------------------------------
Labels == <<"Go", "Rust", "C", "Zig", "Nim">>

Label(i) == Labels[((i - 1) % Len(Labels)) + 1]

\* A snapshot as the server writes it: records { ID, Text, Votes }, ids from 0;
\* v shifts both the texts and the vote counts.
ServerSnapshot(n, v) ==
  [i \in 1..n |-> [ID |-> i - 1, Text |-> Label(i + v), Votes |-> v + i - 1]]

\* The poll has MaxOptions options: the server sends all of them, or none.
ServerSnapshots == {<<>>} \cup {ServerSnapshot(MaxOptions, v) : v \in 0..MaxVotes}

NoData == [kind |-> "none", opts |-> <<>>]

\* res.data of GET /api/poll: null, {} , { Options: "x" }, { Options: [...] }.
FetchResponses ==
  {[kind |-> k, opts |-> <<>>] : k \in {"absent", "noOptions", "notArray"}}
    \cup {[kind |-> "array", opts |-> s] : s \in ServerSnapshots}

\* e.data of a message of /sse/poll: not JSON, JSON but no array, a JSON array.
PushPayloads ==
  {[kind |-> k, opts |-> <<>>] : k \in {"unparseable", "notArray"}}
    \cup {[kind |-> "array", opts |-> s] : s \in ServerSnapshots}

StorageValues == {"absent", "true", "other"}

\* ---- state ---------------------------------------------------------------
VARIABLES
  pc,               \* position of the onMounted callback
  options,          \* options.value
  selected,         \* selected.value: <<>> is undefined, <<n>> is the number n
  hasVoted,         \* hasVoted.value
  storage,          \* localStorage item 'hasVoted'
  chart,            \* the variable chart: <<>> is null, <<r>> is a Chart
  chartSeq,         \* number of Chart resources constructed
  liveCharts,       \* Chart resources constructed and not destroyed
  renderFailed,     \* the rendering library has thrown in this page load
  initTimer,        \* the 100 ms timer of initChart is pending
  posts,            \* number of POST /api/poll/vote/{id} requests in flight
  postCount,        \* number of vote requests issued in this page load
  postedIds,        \* the ids {id} those requests named
  voteFetches,      \* GET /api/poll requests in flight issued by submitVote
  conns,            \* every EventSource constructed in this page load
  eventSource,      \* the closure variable eventSource: index into conns, 0 = unset
  reconnectTimers,  \* pending 5 s reconnect timers
  event             \* the handler that ran last and what it logged

vars == <<pc, options, selected, hasVoted, storage, chart, chartSeq, liveCharts,
          renderFailed, initTimer, posts, postCount, postedIds, voteFetches,
          conns,
          eventSource, reconnectTimers, event>>

voteVars == <<hasVoted, storage>>
chartVars == <<chart, chartSeq, liveCharts, renderFailed>>
netVars == <<posts, postCount, postedIds, voteFetches>>
sseVars == <<conns, eventSource, reconnectTimers>>

\* ---- pure helpers --------------------------------------------------------
\* arg: the connection the handler belongs to, or the option id it sent; 0 if none
Ev(h, arg, d, logs) == [h |-> h, arg |-> arg, data |-> d, logs |-> logs]

\* localStorage.getItem('hasVoted') === 'true'
ReadFlag(s) == s = "true"

Normalize_reversed(p) ==
  [i \in 1..Len(p) |-> [id |-> p[Len(p) + 1 - i].ID,
                        text |-> p[Len(p) + 1 - i].Text,
                        votes |-> p[Len(p) + 1 - i].Votes]]

\* .map(opt => ({ id: opt.ID, text: opt.Text, votes: opt.Votes }))
Normalize(p) ==
  [i \in 1..Len(p) |-> [id |-> p[i].ID, text |-> p[i].Text, votes |-> p[i].Votes]]

\* res.data && res.data.Options && Array.isArray(res.data.Options)
FetchAccepts(r) ==
  /\ r.kind # "absent"
  /\ r.kind # "noOptions"
  /\ r.kind = "array"

FetchedOptions_keepPrior(r, prior) ==
  IF FetchAccepts(r) THEN Normalize(r.opts) ELSE prior

\* the value fetchData assigns to options.value when the request returns
FetchedOptions(r, prior) ==
  IF FetchAccepts(r) THEN Normalize(r.opts) ELSE <<>>

FetchLogs(r) ==
  IF FetchAccepts(r) THEN {"fetchData:log"} ELSE {"fetchData:warn"}

PushAccepts_anyArray(d) == d.kind = "array"

\* Array.isArray(parsedData) && parsedData.length > 0, after JSON.parse
PushAccepts(d) == d.kind = "array" /\ Len(d.opts) > 0

Gated_ignoresHasVoted == selected = <<>> \/ selected[1] = 0

\* !selected.value || hasVoted.value
Gated == selected = <<>> \/ selected[1] = 0 \/ hasVoted

TextsOf(opts) == [i \in 1..Len(opts) |-> opts[i].text]

VotesOf(opts) == [i \in 1..Len(opts) |-> opts[i].votes]

\* !options.value || !Array.isArray(options.value) || options.value.length === 0
InitChartSkips(opts) == Len(opts) = 0

InitChart_noDestroy(ch, opts, seq, live, throws) ==
  IF InitChartSkips(opts)
  THEN [chart |-> ch, seq |-> seq, live |-> live, failed |-> FALSE,
        logs |-> {"initChart:warn"}]
  ELSE IF throws
       THEN [chart |-> ch, seq |-> seq, live |-> live, failed |-> TRUE,
             logs |-> {"initChart:log", "initChart:error"}]
       ELSE [chart |-> <<[uid |-> seq + 1, labels |-> TextsOf(opts),
                          data |-> VotesOf(opts)]>>,
             seq |-> seq + 1, live |-> live \cup {seq + 1},
             failed |-> FALSE, logs |-> {"initChart:log"}]

\* initChart(): the canvas of the template is in the document when it runs
InitChart(ch, opts, seq, live, throws) ==
  IF InitChartSkips(opts)
  THEN [chart |-> ch, seq |-> seq, live |-> live, failed |-> FALSE,
        logs |-> {"initChart:warn"}]
  ELSE LET destroyed == IF ch = <<>> THEN live ELSE live \ {ch[1].uid}
       IN IF throws
          THEN [chart |-> ch, seq |-> seq, live |-> destroyed, failed |-> TRUE,
                logs |-> {"initChart:log", "initChart:error"}]
          ELSE [chart |-> <<[uid |-> seq + 1, labels |-> TextsOf(opts),
                             data |-> VotesOf(opts)]>>,
                seq |-> seq + 1, live |-> destroyed \cup {seq + 1},
                failed |-> FALSE, logs |-> {"initChart:log"}]

UpdateChart_propagates(ch, opts, throws) ==
  IF ch = <<>>
  THEN [chart |-> ch, failed |-> FALSE, logs |-> {"updateChart:warnNoChart"}]
  ELSE IF Len(opts) = 0
  THEN [chart |-> ch, failed |-> FALSE, logs |-> {"updateChart:warnNoData"}]
  ELSE [chart |-> <<[uid |-> ch[1].uid, labels |-> TextsOf(opts),
                     data |-> VotesOf(opts)]>>,
        failed |-> throws,
        logs |-> IF throws THEN {"onmessage:error", "submitVote:error"} ELSE {}]

UpdateChart_recreates(ch, opts, throws) ==
  IF ch = <<>>
  THEN [chart |-> ch, failed |-> FALSE, logs |-> {"updateChart:warnNoChart"}]
  ELSE IF Len(opts) = 0
  THEN [chart |-> ch, failed |-> FALSE, logs |-> {"updateChart:warnNoData"}]
  ELSE [chart |-> <<[uid |-> ch[1].uid + 1, labels |-> TextsOf(opts),
                     data |-> VotesOf(opts)]>>,
        failed |-> throws,
        logs |-> IF throws THEN {"updateChart:error"} ELSE {}]

\* updateChart()
UpdateChart(ch, opts, throws) ==
  IF ch = <<>>
  THEN [chart |-> ch, failed |-> FALSE, logs |-> {"updateChart:warnNoChart"}]
  ELSE IF Len(opts) = 0
  THEN [chart |-> ch, failed |-> FALSE, logs |-> {"updateChart:warnNoData"}]
  ELSE [chart |-> <<[uid |-> ch[1].uid, labels |-> TextsOf(opts),
                     data |-> VotesOf(opts)]>>,
        failed |-> throws,
        logs |-> IF throws THEN {"updateChart:error"} ELSE {}]

\* outcomes of a call into the rendering library: FALSE returns, TRUE throws;
\* updateChart only calls it with a chart and a non-empty store
UpdateOutcomes(ch, opts) == IF ch = <<>> \/ opts = <<>> THEN {FALSE} ELSE BOOLEAN

InitOutcomes(opts) == IF InitChartSkips(opts) THEN {FALSE} ELSE BOOLEAN

\* new EventSource('http://localhost:8080/sse/poll'), with or without handlers
NewConn(h) == [state |-> "connecting", handlers |-> h]

\* ---- initial state: the script block has run, the component is not mounted
Init ==
  /\ storage \in StorageValues
  /\ hasVoted = ReadFlag(storage)
  /\ pc = "setup"
  /\ options = <<>>
  /\ selected = <<>>
  /\ chart = <<>>
  /\ chartSeq = 0
  /\ liveCharts = {}
  /\ renderFailed = FALSE
  /\ initTimer = FALSE
  /\ posts = 0
  /\ postCount = 0
  /\ postedIds = {}
  /\ voteFetches = 0
  /\ conns = <<>>
  /\ eventSource = 0
  /\ reconnectTimers = 0
  /\ event = Ev("setup", 0, NoData, {})

\* ---- onMounted, up to its await fetchData() ------------------------------
OnMounted ==
  /\ pc = "setup"
  /\ pc' = "fetching"
  /\ event' = Ev("onMounted", 0, NoData, {})
  /\ UNCHANGED <<options, selected, voteVars, chartVars, initTimer, netVars, sseVars>>

\* the GET of onMounted returns: rest of fetchData, then rest of onMounted
MountFetchReturns(r) ==
  /\ pc = "fetching"
  /\ pc' = "mounted"
  /\ options' = FetchedOptions(r, options)
  /\ initTimer' = (Len(options') > 0)
  /\ conns' = <<NewConn(TRUE)>>
  /\ eventSource' = 1
  /\ event' = Ev("mountFetchReturned", 0, r,
                 FetchLogs(r) \cup (IF Len(options') > 0 THEN {"onMounted:log"}
                                                       ELSE {"onMounted:warn"}))
  /\ UNCHANGED <<selected, voteVars, chartVars, netVars, reconnectTimers>>

\* the GET of onMounted fails: catch of fetchData rethrows into catch of onMounted
MountFetchFails ==
  /\ pc = "fetching"
  /\ pc' = "aborted"
  /\ options' = <<>>
  /\ event' = Ev("mountFetchFailed", 0, NoData, {"fetchData:error", "onMounted:error"})
  /\ UNCHANGED <<selected, voteVars, chartVars, initTimer, netVars, sseVars>>

\* ---- the template: radio buttons and option rows -------------------------
Select(id) ==
  /\ pc # "setup"
  /\ ~hasVoted
  /\ \E i \in 1..Len(options) : options[i].id = id
  /\ selected' = <<id>>
  /\ event' = Ev("select", 0, NoData, {})
  /\ UNCHANGED <<pc, options, voteVars, chartVars, initTimer, netVars, sseVars>>

\* ---- submitVote, up to its await axios.post ------------------------------
SubmitVote ==
  /\ pc # "setup"
  /\ IF Gated
     THEN /\ event' = Ev("submitVoteGated", 0, NoData, {})
          /\ UNCHANGED <<posts, postCount, postedIds>>
     ELSE /\ postCount < MaxPosts
          /\ posts' = posts + 1
          /\ postCount' = postCount + 1
          /\ postedIds' = postedIds \cup {selected[1]}
          /\ event' = Ev("submitVoteIssued", selected[1], NoData, {})
  /\ UNCHANGED <<pc, options, selected, voteVars, chartVars, initTimer,
                 voteFetches, sseVars>>

VoteSucceeds_noPersist ==
  /\ posts > 0
  /\ posts' = posts - 1
  /\ hasVoted' = TRUE
  /\ voteFetches' = voteFetches + 1
  /\ event' = Ev("voteSucceeded", 0, NoData, {})
  /\ UNCHANGED <<pc, options, selected, storage, chartVars, initTimer, postCount, postedIds,
                 sseVars>>

\* the POST succeeds: lines 47-51, up to the await of the GET inside fetchData
VoteSucceeds ==
  /\ posts > 0
  /\ posts' = posts - 1
  /\ hasVoted' = TRUE
  /\ storage' = "true"
  /\ voteFetches' = voteFetches + 1
  /\ event' = Ev("voteSucceeded", 0, NoData, {})
  /\ UNCHANGED <<pc, options, selected, chartVars, initTimer, postCount, postedIds,
                 sseVars>>

VoteFails_marksVoted ==
  /\ posts > 0
  /\ posts' = posts - 1
  /\ hasVoted' = TRUE
  /\ event' = Ev("voteFailed", 0, NoData, {"submitVote:error"})
  /\ UNCHANGED <<pc, options, selected, storage, chartVars, initTimer, postCount,
                 postedIds, voteFetches, sseVars>>

\* the POST fails: catch of submitVote
VoteFails ==
  /\ posts > 0
  /\ posts' = posts - 1
  /\ event' = Ev("voteFailed", 0, NoData, {"submitVote:error"})
  /\ UNCHANGED <<pc, options, selected, voteVars, chartVars, initTimer, postCount,
                 postedIds, voteFetches, sseVars>>

\* the GET of submitVote returns: rest of fetchData, then updateChart()
VoteFetchReturns(r) ==
  /\ voteFetches > 0
  /\ voteFetches' = voteFetches - 1
  /\ options' = FetchedOptions(r, options)
  /\ \E throws \in UpdateOutcomes(chart, options') :
       LET u == UpdateChart(chart, options', throws)
       IN /\ chart' = u.chart
          /\ renderFailed' = (renderFailed \/ u.failed)
          /\ event' = Ev("voteFetchReturned", 0, r, FetchLogs(r) \cup u.logs)
  /\ UNCHANGED <<pc, selected, voteVars, chartSeq, liveCharts, initTimer, posts,
                 postCount, postedIds, sseVars>>

VoteFetchFails_rollback ==
  /\ voteFetches > 0
  /\ voteFetches' = voteFetches - 1
  /\ options' = <<>>
  /\ hasVoted' = FALSE
  /\ event' = Ev("voteFetchFailed", 0, NoData, {"fetchData:error", "submitVote:error"})
  /\ UNCHANGED <<pc, selected, storage, chartVars, initTimer, posts, postCount,
                 postedIds, sseVars>>

\* the GET of submitVote fails: catch of fetchData rethrows into catch of submitVote
VoteFetchFails ==
  /\ voteFetches > 0
  /\ voteFetches' = voteFetches - 1
  /\ options' = <<>>
  /\ event' = Ev("voteFetchFailed", 0, NoData, {"fetchData:error", "submitVote:error"})
  /\ UNCHANGED <<pc, selected, voteVars, chartVars, initTimer, posts, postCount,
                 postedIds, sseVars>>

\* ---- the 100 ms timer of onMounted fires: initChart() ---------------------
InitChartTimer ==
  /\ initTimer
  /\ initTimer' = FALSE
  /\ \E throws \in InitOutcomes(options) :
       LET r == InitChart(chart, options, chartSeq, liveCharts, throws)
       IN /\ chart' = r.chart
          /\ chartSeq' = r.seq
          /\ liveCharts' = r.live
          /\ renderFailed' = (renderFailed \/ r.failed)
          /\ event' = Ev("initChartTimer", 0, NoData, r.logs)
  /\ UNCHANGED <<pc, options, selected, voteVars, netVars, sseVars>>

\* ---- the push connection --------------------------------------------------
\* the handshake of connection c completes
ConnOpens(c) ==
  /\ c \in 1..Len(conns)
  /\ conns[c].state = "connecting"
  /\ conns' = [conns EXCEPT ![c].state = "open"]
  /\ event' = Ev("connOpened", c, NoData, {})
  /\ UNCHANGED <<pc, options, selected, voteVars, chartVars, initTimer, netVars,
                 eventSource, reconnectTimers>>

\* a message arrives on connection c: eventSource.onmessage, when one is installed
OnMessage(c, d) ==
  /\ c \in 1..Len(conns)
  /\ conns[c].state = "open"
  /\ conns[c].handlers
  /\ IF d.kind = "unparseable"
     THEN /\ event' = Ev("onMessage", c, d, {"onmessage:log", "onmessage:error"})
          /\ UNCHANGED <<options, chart, renderFailed>>
     ELSE IF PushAccepts(d)
     THEN /\ options' = Normalize(d.opts)
          /\ \E throws \in UpdateOutcomes(chart, options') :
               LET u == UpdateChart(chart, options', throws)
               IN /\ chart' = u.chart
                  /\ renderFailed' = (renderFailed \/ u.failed)
                  /\ event' = Ev("onMessage", c, d, {"onmessage:log"} \cup u.logs)
     ELSE /\ event' = Ev("onMessage", c, d, {"onmessage:log", "onmessage:warn"})
          /\ UNCHANGED <<options, chart, renderFailed>>
  /\ UNCHANGED <<pc, selected, voteVars, chartSeq, liveCharts, initTimer, netVars,
                 sseVars>>

\* a message arrives on a connection that has no onmessage: no handler runs,
\* whatever the payload is
MessageUnhandled(c) ==
  /\ c \in 1..Len(conns)
  /\ conns[c].state = "open"
  /\ ~conns[c].handlers
  /\ event' = Ev("messageUnhandled", c, NoData, {})
  /\ UNCHANGED <<pc, options, selected, voteVars, chartVars, initTimer, netVars,
                 sseVars>>

\* a transport error on connection c: the browser retries (connecting) or gives
\* up (closed); eventSource.onerror, when one is installed, arms a 5 s timer
ConnError(c, fatal) ==
  /\ c \in 1..Len(conns)
  /\ conns[c].state # "closed"
  /\ conns' = [conns EXCEPT ![c].state = IF fatal THEN "closed" ELSE "connecting"]
  /\ IF conns[c].handlers
     THEN /\ reconnectTimers < MaxTimers
          /\ reconnectTimers' = reconnectTimers + 1
          /\ event' = Ev("onError", c, NoData, {"onerror:error"})
     ELSE /\ event' = Ev("errorUnhandled", c, NoData, {})
          /\ UNCHANGED reconnectTimers
  /\ UNCHANGED <<pc, options, selected, voteVars, chartVars, initTimer, netVars,
                 eventSource>>

ReconnectTimer_noClose ==
  /\ reconnectTimers > 0
  /\ Len(conns) < MaxConns
  /\ reconnectTimers' = reconnectTimers - 1
  /\ conns' = Append(conns, NewConn(FALSE))
  /\ eventSource' = Len(conns) + 1
  /\ event' = Ev("reconnectTimer", eventSource', NoData, {"reconnect:log"})
  /\ UNCHANGED <<pc, options, selected, voteVars, chartVars, initTimer, netVars>>

\* a 5 s timer fires: eventSource.close(), then eventSource = new EventSource(...)
ReconnectTimer ==
  /\ reconnectTimers > 0
  /\ Len(conns) < MaxConns
  /\ reconnectTimers' = reconnectTimers - 1
  /\ conns' = Append([conns EXCEPT ![eventSource].state = "closed"], NewConn(FALSE))
  /\ eventSource' = Len(conns) + 1
  /\ event' = Ev("reconnectTimer", eventSource', NoData, {"reconnect:log"})
  /\ UNCHANGED <<pc, options, selected, voteVars, chartVars, initTimer, netVars>>

\* ---- the page is reloaded: only localStorage survives --------------------
Reload ==
  /\ pc # "setup"
  /\ hasVoted' = ReadFlag(storage)
  /\ pc' = "setup"
  /\ options' = <<>>
  /\ selected' = <<>>
  /\ chart' = <<>>
  /\ chartSeq' = 0
  /\ liveCharts' = {}
  /\ renderFailed' = FALSE
  /\ initTimer' = FALSE
  /\ posts' = 0
  /\ postCount' = 0
  /\ postedIds' = {}
  /\ voteFetches' = 0
  /\ conns' = <<>>
  /\ eventSource' = 0
  /\ reconnectTimers' = 0
  /\ event' = Ev("setup", 0, NoData, {})
  /\ UNCHANGED storage

Next ==
  \/ OnMounted
  \/ \E r \in FetchResponses : MountFetchReturns(r)
  \/ MountFetchFails
  \/ \E id \in 0..(MaxOptions - 1) : Select(id)
  \/ SubmitVote
  \/ VoteSucceeds
  \/ VoteFails
  \/ \E r \in FetchResponses : VoteFetchReturns(r)
  \/ VoteFetchFails
  \/ InitChartTimer
  \/ \E c \in 1..MaxConns : ConnOpens(c)
  \/ \E c \in 1..MaxConns, d \in PushPayloads : OnMessage(c, d)
  \/ \E c \in 1..MaxConns : MessageUnhandled(c)
  \/ \E c \in 1..MaxConns, f \in BOOLEAN : ConnError(c, f)
  \/ ReconnectTimer
  \/ Reload

Spec == Init /\ [][Next]_vars

\* ---- the chart functions on their own -------------------------------------
\* initChart and updateChart called in any order on any store content, as a
\* caller of these two functions may; Spec calls initChart once per page load
StoreReplaced(s) ==
  /\ options' = Normalize(s)
  /\ event' = Ev("storeReplaced", 0, NoData, {})
  /\ UNCHANGED <<pc, selected, voteVars, chartVars, initTimer, netVars, sseVars>>

InitChartCalled ==
  /\ chartSeq < MaxCharts
  /\ \E throws \in InitOutcomes(options) :
       LET r == InitChart(chart, options, chartSeq, liveCharts, throws)
       IN /\ chart' = r.chart
          /\ chartSeq' = r.seq
          /\ liveCharts' = r.live
          /\ renderFailed' = (renderFailed \/ r.failed)
          /\ event' = Ev("initChart", 0, NoData, r.logs)
  /\ UNCHANGED <<pc, options, selected, voteVars, initTimer, netVars, sseVars>>

UpdateChartCalled ==
  /\ \E throws \in UpdateOutcomes(chart, options) :
       LET u == UpdateChart(chart, options, throws)
       IN /\ chart' = u.chart
          /\ renderFailed' = (renderFailed \/ u.failed)
          /\ event' = Ev("updateChart", 0, NoData, u.logs)
  /\ UNCHANGED <<pc, options, selected, voteVars, chartSeq, liveCharts, initTimer,
                 netVars, sseVars>>

ChartNext ==
  \/ \E s \in ServerSnapshots : StoreReplaced(s)
  \/ InitChartCalled
  \/ UpdateChartCalled

ChartSpec == Init /\ [][ChartNext]_vars

\* ---- vocabulary of the properties ----------------------------------------
SubmitCalled == event'.h \in {"submitVoteGated", "submitVoteIssued"}

FetchCompleted == event'.h \in {"mountFetchReturned", "voteFetchReturned"}

FetchFailed == event'.h \in {"mountFetchFailed", "voteFetchFailed"}

\* the canonical Option sequence of a server snapshot s, element by element
IsCanonical(opts, s) ==
  /\ Len(opts) = Len(s)
  /\ \A i \in 1..Len(s) :
       /\ opts[i].id = s[i].ID
       /\ opts[i].text = s[i].Text
       /\ opts[i].votes = s[i].Votes

WellFormedPush(d) == d.kind = "array" /\ d.opts # <<>>

\* ---- C1 -------------------------------------------------------------------
\* C1: in one page load at most one vote request POST /api/poll/vote/{id} is
\* ever issued, whatever the sequence and interleaving of submitVote calls.
CE_C1 == postCount <= 1

\* ---- C2 -------------------------------------------------------------------
\* C2: hasVoted never goes from true to false, and the only step that changes
\* it is the completion of a successful vote request.
Thm_C2 ==
  [][/\ hasVoted => hasVoted'
     /\ hasVoted' # hasVoted => event'.h = "voteSucceeded"]_vars

W_C2 == hasVoted /\ postCount > 0 /\ event.h = "reconnectTimer"

\* ---- C3 -------------------------------------------------------------------
\* C3: a submitVote call made with no option selected, or with hasVoted true,
\* issues no request and leaves hasVoted, the persisted flag, the stored
\* snapshot and the chart unchanged.
Thm_C3 ==
  [][(selected = <<>> \/ hasVoted) /\ SubmitCalled
       => UNCHANGED <<posts, postCount, postedIds, voteFetches, hasVoted, storage,
                      options, chart, chartSeq, liveCharts>>]_vars

W_C3 == event.h = "submitVoteGated" /\ hasVoted /\ selected # <<>> /\ options # <<>>

\* ---- C4 -------------------------------------------------------------------
\* C4: a successful vote request sets hasVoted and the persisted flag in one
\* step; between handlers hasVoted is true exactly when the persisted flag is
\* "true"; once the flag is "true" every submitVote call, also after a reload,
\* issues nothing.
Thm_C4 ==
  /\ [](hasVoted <=> storage = "true")
  /\ [][event'.h = "voteSucceeded" => hasVoted' /\ storage' = "true"]_vars
  /\ [][storage = "true" /\ SubmitCalled
       => UNCHANGED <<posts, postCount, postedIds, voteFetches>>]_vars

W_C4 == event.h = "voteSucceeded" /\ hasVoted /\ storage = "true" /\ voteFetches > 0

\* ---- C5 -------------------------------------------------------------------
\* C5: a failed vote request leaves hasVoted, the persisted flag and the stored
\* snapshot as they were, and a later submitVote with the selection of an
\* earlier request issues a new request for it.
Thm_C5 ==
  /\ [][event'.h = "voteFailed" => UNCHANGED <<hasVoted, storage, options>>]_vars
  /\ [][/\ ~hasVoted
        /\ selected # <<>>
        /\ selected[1] \in postedIds
        /\ SubmitCalled
        => /\ posts' = posts + 1
           /\ postCount' = postCount + 1
           /\ event' = Ev("submitVoteIssued", selected[1], NoData, {})]_vars

W_C5 ==
  /\ event.h = "submitVoteIssued"
  /\ postCount = 2
  /\ postedIds = {event.arg}
  /\ posts = 1
  /\ ~hasVoted
  /\ storage # "true"

\* ---- C6 -------------------------------------------------------------------
\* C6: a fetch that fails leaves the stored snapshot as it was.
CE_C6 == [][FetchFailed => options' = options]_vars

\* ---- C7 -------------------------------------------------------------------
\* C7: when the fetch of onMounted fails, the push connection is still opened
\* with its handlers installed.
CE_C7 ==
  event.h = "mountFetchFailed"
    => /\ eventSource # 0
       /\ Len(conns) > 0
       /\ conns[Len(conns)].handlers

\* ---- C8 -------------------------------------------------------------------
\* C8: after the handler that ran last accepted a snapshot S (a fetch completion
\* with an Options array, or a push message with a non-empty array), the stored
\* options are exactly the canonical form of S, in the order of S.
Thm_C8 ==
  (\/ event.h \in {"mountFetchReturned", "voteFetchReturned"} /\ event.data.kind = "array"
   \/ event.h = "onMessage" /\ WellFormedPush(event.data))
    => IsCanonical(options, event.data.opts)

W_C8 ==
  /\ event.h = "onMessage"
  /\ WellFormedPush(event.data)
  /\ Len(options) = 2
  /\ voteFetches > 0

\* ---- C9 -------------------------------------------------------------------
\* C9: a push message that is unparseable, not an array or an empty array
\* changes neither the stored snapshot nor the chart, closes no connection and
\* arms no reconnect timer; a well-formed message that follows it on the same
\* connection is processed.
Thm_C9 ==
  /\ [][event'.h = "onMessage" /\ ~WellFormedPush(event'.data)
          => UNCHANGED <<options, chart, chartSeq, liveCharts, conns,
                         eventSource, reconnectTimers>>]_vars
  /\ [][/\ event.h = "onMessage"
        /\ ~WellFormedPush(event.data)
        /\ event'.h \in {"onMessage", "messageUnhandled"}
        /\ event'.arg = event.arg
        => /\ event'.h = "onMessage"
           /\ WellFormedPush(event'.data) => IsCanonical(options', event'.data.opts)]_vars

W_C9 ==
  /\ event.h = "onMessage"
  /\ event.data.kind = "array"
  /\ event.data.opts = <<>>
  /\ options # <<>>
  /\ chart # <<>>
  /\ conns[event.arg].state = "open"

\* ---- C10 ------------------------------------------------------------------
\* C10: a fetch that returns no data, no Options or Options that is no array
\* empties the store, logs a warning, raises nothing to its caller (onMounted
\* goes on to open the connection, submitVote logs no failure) and creates no
\* chart; no chart is ever created while the store is empty.
Thm_C10 ==
  /\ [][FetchCompleted /\ event'.data.kind # "array"
          => /\ options' = <<>>
             /\ "fetchData:warn" \in event'.logs
             /\ event'.logs \cap {"fetchData:error", "onMounted:error",
                                  "submitVote:error"} = {}
             /\ event'.h = "mountFetchReturned"
                  => pc' = "mounted" /\ ~initTimer' /\ Len(conns') = 1
             /\ UNCHANGED <<chart, chartSeq, liveCharts>>]_vars
  /\ [][chartSeq' > chartSeq => options # <<>>]_vars

W_C10 ==
  /\ event.h = "mountFetchReturned"
  /\ event.data.kind = "noOptions"
  /\ options = <<>>
  /\ chart = <<>>
  /\ ~initTimer

\* ---- C11 ------------------------------------------------------------------
\* C11: in every reachable state at most one push connection is not closed, and
\* a reconnect step that opens a new connection leaves the handle that was held
\* before it closed.
NotClosed(cs) == {c \in 1..Len(cs) : cs[c].state # "closed"}

Thm_C11 ==
  /\ [](Cardinality(NotClosed(conns)) <= 1)
  /\ [][event'.h = "reconnectTimer"
          => /\ eventSource \in 1..Len(conns)
             /\ conns'[eventSource].state = "closed"
             /\ Len(conns') = Len(conns) + 1
             /\ NotClosed(conns') = {eventSource'}]_vars

W_C11 ==
  /\ event.h = "reconnectTimer"
  /\ Len(conns) = 3
  /\ NotClosed(conns) = {3}
  /\ reconnectTimers = 0

\* ---- C12 ------------------------------------------------------------------
\* C12: every transport error on the connection currently held, the one opened
\* at activation or one opened by an earlier reconnect, arms a reconnect timer.
TransportError == event'.h \in {"onError", "errorUnhandled"}

CE_C12 ==
  [][TransportError /\ event'.arg = eventSource
       => reconnectTimers' = reconnectTimers + 1]_vars

\* ---- C13 ------------------------------------------------------------------
\* C13: a message delivered on a connection opened by a reconnect is handled as
\* on the original connection: onmessage runs, and a well-formed non-empty
\* payload replaces the stored snapshot.
MessageDelivered == event'.h \in {"onMessage", "messageUnhandled"}

CE_C13 ==
  [][MessageDelivered /\ event'.arg = eventSource /\ eventSource > 1
       => /\ event'.h = "onMessage"
          /\ WellFormedPush(event'.data) => IsCanonical(options', event'.data.opts)]_vars

\* ---- C14 ------------------------------------------------------------------
\* C14: at most one chart resource is live in every reachable state; a step
\* that builds a chart leaves the new resource as the only live one, the one
\* held before it destroyed; the chart handle never refers to a destroyed
\* resource while another resource is live.
Thm_C14 ==
  /\ [](Cardinality(liveCharts) <= 1)
  /\ [](chart # <<>> => liveCharts \subseteq {chart[1].uid})
  /\ [][chartSeq' > chartSeq
          => /\ chart' # <<>>
             /\ chart'[1].uid = chartSeq'
             /\ liveCharts' = {chartSeq'}
             /\ chart # <<>> => chart[1].uid \notin liveCharts']_vars

W_C14 ==
  /\ event.h = "initChart"
  /\ chartSeq = 2
  /\ chart # <<>>
  /\ chart[1].uid = 2
  /\ liveCharts = {2}

\* ---- C15 ------------------------------------------------------------------
\* C15: the handlers that call updateChart (a well-formed push message, the
\* completion of the post-vote fetch) create and destroy no chart; with a chart
\* and a non-empty snapshot the same chart resource shows the labels and the
\* vote counts of the snapshot afterwards; with no chart there is none afterwards.
\* the chart c shows the server snapshot s, element by element
ShowsSnapshot(c, s) ==
  /\ Len(c.labels) = Len(s)
  /\ Len(c.data) = Len(s)
  /\ \A i \in 1..Len(s) : c.labels[i] = s[i].Text /\ c.data[i] = s[i].Votes

UpdateChartCalledBy ==
  \/ event'.h = "voteFetchReturned"
  \/ event'.h = "onMessage" /\ WellFormedPush(event'.data)

Thm_C15 ==
  [][UpdateChartCalledBy
       => /\ UNCHANGED <<chartSeq, liveCharts>>
          /\ chart = <<>> => chart' = <<>>
          /\ chart # <<>> => chart' # <<>> /\ chart'[1].uid = chart[1].uid
          /\ (/\ chart # <<>>
              /\ WellFormedPush(event'.data)
              /\ "updateChart:error" \notin event'.logs)
               => ShowsSnapshot(chart'[1], event'.data.opts)]_vars

W_C15 ==
  /\ event.h = "voteFetchReturned"
  /\ WellFormedPush(event.data)
  /\ "updateChart:error" \notin event.logs
  /\ chart # <<>>
  /\ ShowsSnapshot(chart[1], event.data.opts)
  /\ chart[1].data[1] = MaxVotes

\* ---- C16 ------------------------------------------------------------------
\* C16: when the rendering library throws inside initChart or updateChart, the
\* exception is logged there and reaches no catch of the calling handler; the
\* handler completes: the store holds the snapshot it wrote, a recorded vote
\* stays recorded, the connection and the page state are untouched; handlers
\* that run after a rendering failure still store the snapshot they accept.
RenderErrors == {"initChart:error", "updateChart:error"}

CallerErrors == {"fetchData:error", "submitVote:error", "onmessage:error",
                 "onMounted:error"}

RenderThrew ==
  \/ event'.logs \cap RenderErrors # {}
  \/ renderFailed' /\ ~renderFailed

SnapshotAccepted ==
  \/ event'.h = "onMessage" /\ WellFormedPush(event'.data)
  \/ FetchCompleted /\ event'.data.kind = "array"

Thm_C16 ==
  /\ [][RenderThrew
          => /\ event'.logs \cap RenderErrors # {}
             /\ event'.logs \cap CallerErrors = {}
             /\ event'.h \in {"initChartTimer", "onMessage", "voteFetchReturned"}
             /\ event'.h = "initChartTimer" => options' = options
             /\ event'.h # "initChartTimer" => IsCanonical(options', event'.data.opts)
             /\ UNCHANGED <<pc, hasVoted, storage, conns, eventSource,
                            reconnectTimers, posts, postCount>>]_vars
  /\ [][renderFailed /\ hasVoted /\ event'.h # "setup"
          => renderFailed' /\ hasVoted' /\ storage' = "true"]_vars
  /\ [][renderFailed /\ SnapshotAccepted
          => IsCanonical(options', event'.data.opts)]_vars

W_C16 ==
  /\ renderFailed
  /\ hasVoted
  /\ postCount > 0
  /\ storage = "true"
  /\ event.h = "onMessage"
  /\ WellFormedPush(event.data)
  /\ IsCanonical(options, event.data.opts)
  /\ event.logs \cap RenderErrors = {}
  /\ chart # <<>>
  /\ ShowsSnapshot(chart[1], event.data.opts)

\* ---- C17 ------------------------------------------------------------------
\* C17: when activation created no chart and scheduled none because the initial
\* fetch gave no snapshot, the next well-formed non-empty snapshot results in a
\* chart that displays it. Stated for the push message, at the completion of
\* its handler: by ChartOnlyFromInitTimer no later step can create the chart.
\* no vote was sent, no chart was built or attempted and none is scheduled:
\* the fetch of onMounted returned no snapshot
NoChartAtActivation ==
  /\ pc = "mounted"
  /\ postCount = 0
  /\ chartSeq = 0
  /\ ~initTimer
  /\ ~renderFailed

CE_C17 ==
  [][NoChartAtActivation /\ event'.h = "onMessage" /\ WellFormedPush(event'.data)
       => chart' # <<>> /\ ShowsSnapshot(chart'[1], event'.data.opts)]_vars

\* a chart appears only in the 100 ms timer of onMounted, and that timer is
\* armed only when the fetch of onMounted returns
ChartOnlyFromInitTimer ==
  /\ [][chart = <<>> /\ chart' # <<>> => initTimer /\ event'.h = "initChartTimer"]_vars
  /\ [][initTimer' /\ ~initTimer => event'.h = "mountFetchReturned"]_vars

\* ---- C18 ------------------------------------------------------------------
\* C18: in every state between handlers in which a chart exists and the
\* rendering library has not thrown, the labels and the measures of the chart
\* are the texts and the vote counts of the stored options, in the same order.
CE_C18 ==
  chart # <<>> /\ ~renderFailed
    => /\ chart[1].labels = [i \in 1..Len(options) |-> options[i].text]
       /\ chart[1].data = [i \in 1..Len(options) |-> options[i].votes]

\* ---- C19 ------------------------------------------------------------------
\* C19: when the selected id is the id of a stored option, 0 included, and
\* hasVoted is false, a call of submitVote issues one vote request naming
\* exactly that id.
SelectedIsStored ==
  /\ selected # <<>>
  /\ \E i \in 1..Len(options) : options[i].id = selected[1]

CE_C19 ==
  [][SelectedIsStored /\ ~hasVoted /\ SubmitCalled
       => /\ event' = Ev("submitVoteIssued", selected[1], NoData, {})
          /\ posts' = posts + 1
          /\ postedIds' = postedIds \cup {selected[1]}]_vars

\* ---- C20 ------------------------------------------------------------------
\* C20: a reconnect timer that fires closes the connection whose transport
\* error armed it. Only a connection with an onerror handler arms timers, so
\* the handle a timer closes is such a connection, never one that a reconnect
\* opened and that armed nothing.
CE_C20 ==
  [][event'.h = "reconnectTimer"
       => /\ eventSource \in 1..Len(conns)
          /\ conns[eventSource].handlers]_vars

====
